---- MODULE Spec2Model ----
(***************************************************************************)
(* Model of gerador_cnpj.py: the modulo-11 check digits, the three         *)
(* generation modes of main (random, seq with shards, around with an       *)
(* affine permutation) and the ChunkWriter that receives the lines.        *)
(*                                                                         *)
(* Strings are sequences of one-character strings.  An optional value      *)
(* (Python None or a value) is the empty set or a singleton.  A Python     *)
(* function with several statements is a chain of operators, one per       *)
(* statement group, each handing its locals to the next as parameters.     *)
(***************************************************************************)
EXTENDS Integers, Sequences, FiniteSets, TLC

VARIABLES
    dv,       \* checksum run: the 12 digits, the position, the result
    writer,   \* the ChunkWriter object and the files it produced
    calls,    \* the calls made on the writer so far ("w" / "c")
    args,     \* the parsed command line (argparse namespace)
    run,      \* position and locals of main()
    shards    \* seq mode run once per shard index: run and writer of each

vars == <<dv, writer, calls, args, run, shards>>

\* ------------------------------------------------------------------ bounds
MaxDvRaiz == 12
MaxDvFilial == 12
MaxCalls == 7
MaxChunk == 3
MaxQuantidade == 3
MaxSpread == 4
MaxInicio == 2
MaxBase == 4
MaxPasso == 2
MaxShards == 3
MaxDraw == 1
RunChunk == 2

\* ------------------------------------------------------- program constants
RAIZ_MAX == 99999999
FILIAL_MAX == 9999
FILIAL_DEFAULT == 1
AROUND_FILIAL == 1

\* ------------------------------------------------------------------ strings
DigitChars == <<"0", "1", "2", "3", "4", "5", "6", "7", "8", "9">>

\* str(x) of one digit
str_digit(d) == DigitChars[d + 1]

IsDigitChar(ch) == \E d \in 0..9 : DigitChars[d + 1] = ch

\* int(ch) of one character known to be a digit
int_char(ch) == CHOOSE d \in 0..9 : DigitChars[d + 1] = ch

Min(a, b) == IF a < b THEN a ELSE b
Max(a, b) == IF a > b THEN a ELSE b

RECURSIVE dec_digits(_)
\* the decimal digits of n >= 0, most significant first, no padding
dec_digits(n) == IF n < 10 THEN <<n>> ELSE Append(dec_digits(n \div 10), n % 10)

\* "".join(str(x) for x in digits)
join_digits(ds) == [k \in 1..Len(ds) |-> str_digit(ds[k])]

RECURSIVE zeros(_)
zeros(k) == IF k <= 0 THEN <<>> ELSE <<"0">> \o zeros(k - 1)

\* zero padding on the left up to width; a longer string is left alone
zfill(s, width) == zeros(width - Len(s)) \o s

\* f"{n:0{width}d}": the sign first and counted in the width, never truncated
fmt_int(n, width) ==
    IF n < 0 THEN <<"-">> \o zfill(join_digits(dec_digits(0 - n)), width - 1)
    ELSE zfill(join_digits(dec_digits(n)), width)

\* whether [int(ch) for ch in s] completes (no ValueError)
all_digits(s) == \A k \in 1..Len(s) : IsDigitChar(s[k])

\* [int(ch) for ch in s]
int_list(s) == [k \in 1..Len(s) |-> int_char(s[k])]

\* s[a:b] of Python, 0-based, end exclusive, clipped to the string
slice(s, a, b) == SubSeq(s, a + 1, Min(b, Len(s)))

\* ---------------------------------------------------------------- checksum
PESOS_DV1 == <<5, 4, 3, 2, 9, 8, 7, 6, 5, 4, 3, 2>>
PESOS_DV2 == <<6, 5, 4, 3, 2, 9, 8, 7, 6, 5, 4, 3, 2>>

RECURSIVE zip_sum(_, _, _)
\* sum(d * p for d, p in zip(numeros, pesos)) over the first k pairs
zip_sum(numeros, pesos, k) ==
    IF k = 0 THEN 0 ELSE zip_sum(numeros, pesos, k - 1) + numeros[k] * pesos[k]

\* a faulty variant: only a remainder of 0 gives the digit 0
dv_of_resto_lt1(r) == IF r < 1 THEN 0 ELSE 11 - r

\* return 0 if r < 2 else 11 - r
dv_of_resto(r) == IF r < 2 THEN 0 ELSE 11 - r

dv_mod11(numeros, pesos) ==
    dv_of_resto(zip_sum(numeros, pesos, Min(Len(numeros), Len(pesos))) % 11)

\* the second digit, over the base and the first digit
calc_dvs_d2(base12_digits, d1) ==
    <<d1, dv_mod11(Append(base12_digits, d1), PESOS_DV2)>>

calc_dvs(base12_digits) == calc_dvs_d2(base12_digits, dv_mod11(base12_digits, PESOS_DV1))

mascarar(cnpj) ==
    slice(cnpj, 0, 2) \o <<".">> \o slice(cnpj, 2, 5) \o <<".">> \o slice(cnpj, 5, 8)
        \o <<"/">> \o slice(cnpj, 8, 12) \o <<"-">> \o slice(cnpj, 12, 14)

is_sequencia_invalida(cnpj14str) ==
    Cardinality({cnpj14str[k] : k \in 1..Len(cnpj14str)}) = 1

\* "".join(str(x) for x in (base12 + [d1, d2]))
cnpj14_of(base12_digits) == join_digits(base12_digits \o calc_dvs(base12_digits))

\* mascarar(cnpj14) if com_mascara else cnpj14
render(cnpj14, com_mascara) == IF com_mascara THEN mascarar(cnpj14) ELSE cnpj14

\* the end of montar_cnpj: <<>> stands for None, else the line
montar_line(cnpj14, com_mascara) ==
    IF is_sequencia_invalida(cnpj14) THEN <<>> ELSE render(cnpj14, com_mascara)

montar_cnpj(raiz8, filial4, com_mascara) ==
    montar_line(cnpj14_of(int_list(fmt_int(raiz8, 8) \o fmt_int(filial4, 4))), com_mascara)

\* re.sub(r"\D", "", s)
RECURSIVE only_digits(_)
only_digits(s) ==
    IF s = <<>> THEN <<>>
    ELSE IF IsDigitChar(Head(s)) THEN <<Head(s)>> \o only_digits(Tail(s))
    ELSE only_digits(Tail(s))

RECURSIVE int_str(_, _)
\* int() of the first k characters of a string of digits
int_str(s, k) == IF k = 0 THEN 0 ELSE 10 * int_str(s, k - 1) + int_char(s[k])

\* the end of parse_cnpj_like: {} when it raises ValueError, else {<<raiz, filial>>}
parse_nums(nums) ==
    IF Len(nums) < 12 THEN {}
    ELSE {<<int_str(slice(nums, 0, 8), 8), int_str(slice(nums, 8, 12), 4)>>}

parse_cnpj_like(s) == parse_nums(only_digits(s))

\* ------------------------------------------------------------- ChunkWriter
\* A path is the part of the file name after the prefix and before ".txt".
\* fh: {} is None, {p} the file object of path p (it may be closed already);
\* open: the paths that hold an open operating-system handle;
\* files: path -> the lines the file holds;
\* opened: the paths given to path.open, in order (history).
ChunkWriter(chunk_size) ==
    [chunk_size |-> Max(0, chunk_size), count_total |-> 0, count_chunk |-> 0,
     chunk_idx |-> 0, fh |-> {}, open |-> {}, files |-> <<>>, opened |-> <<>>]

chunk_path(w, idx) ==
    IF w.chunk_size > 0 THEN <<"_">> \o fmt_int(idx, 5) ELSE <<>>

\* path.open("w"): creates or truncates the file
open_w(files, path) ==
    [p \in (DOMAIN files) \cup {path} |-> IF p = path THEN <<>> ELSE files[p]]

\* the end of _open_next once the path is known
open_path(w, path) ==
    [w EXCEPT !.fh = {path}, !.open = @ \cup {path}, !.files = open_w(@, path),
              !.count_chunk = 0, !.opened = Append(@, path)]

\* a faulty variant: the file object is dropped but its handle is never released
close_fh_leak(w) == w

\* if self._fh: self._fh.close()
close_fh(w) == [w EXCEPT !.open = @ \ w.fh]

\* self._chunk_idx += 1
next_idx(w) == [w EXCEPT !.chunk_idx = @ + 1]

\* _open_next; ok = FALSE: path.open raises, after the close and the increment
_open_next(w, ok) ==
    IF ok THEN open_path(next_idx(close_fh(w)), chunk_path(w, w.chunk_idx + 1))
    ELSE next_idx(close_fh(w))

\* a step of write_line: the writer and whether an exception is on its way
Going(w) == [w |-> w, raised |-> FALSE]
Raised(w) == [w |-> w, raised |-> TRUE]

\* if self._fh is None: self._open_next()
write_first(w, io) ==
    IF w.fh = {}
    THEN [w |-> _open_next(w, io # "open"), raised |-> io = "open"]
    ELSE Going(w)

\* a faulty variant: rotation only once the chunk holds more than chunk_size lines
chunk_full_gt(w) == w.chunk_size > 0 /\ w.count_chunk > w.chunk_size

\* self.chunk_size > 0 and self._count_chunk >= self.chunk_size
chunk_full(w) == w.chunk_size > 0 /\ w.count_chunk >= w.chunk_size

\* if the chunk is full: self._open_next()
write_rotate(s, io) ==
    IF s.raised \/ ~chunk_full(s.w) THEN s
    ELSE [w |-> _open_next(s.w, io # "open"), raised |-> io = "open"]

\* self._fh.write(line + "\n") and the two counters
write_append(s, line, io) ==
    IF s.raised THEN s
    ELSE IF io = "write" THEN Raised(s.w)
    ELSE Going([s.w EXCEPT !.files[CHOOSE p \in s.w.fh : TRUE] = Append(@, line),
                           !.count_chunk = @ + 1, !.count_total = @ + 1])

\* write_line; io is "ok", "open" (an open raises) or "write" (the write raises)
write_line(w, line, io) == write_append(write_rotate(write_first(w, io), io), line, io)

close(w) == IF w.fh # {} THEN [w EXCEPT !.open = @ \ w.fh, !.fh = {}] ELSE w

\* ------------------------------------------------------ idle values per spec
NoDv == [pc |-> "off", B |-> <<>>, d |-> <<>>]
NoArgs == [modo |-> "none"]
NoRun == [pc |-> "off"]
NoWriter == ChunkWriter(0)

\* ------------------------------------------------------------ SpecDV: calc_dvs
DvRaizes == (0..MaxDvRaiz) \cup {RAIZ_MAX - k : k \in 0..MaxDvRaiz} \cup {11222333}
DvFiliais == (0..MaxDvFilial) \cup {FILIAL_MAX - k : k \in 0..MaxDvFilial}

InitDV ==
    /\ \E raiz \in DvRaizes, filial \in DvFiliais :
          dv = [pc |-> "base", d |-> <<>>,
                B |-> int_list(fmt_int(raiz, 8) \o fmt_int(filial, 4))]
    /\ writer = NoWriter /\ calls = <<>> /\ args = NoArgs /\ run = NoRun
    /\ shards = <<>>

DvCalc ==
    /\ dv.pc = "base"
    /\ dv' = [dv EXCEPT !.pc = "done", !.d = calc_dvs(dv.B)]
    /\ UNCHANGED <<writer, calls, args, run, shards>>

SpecDV == InitDV /\ [][DvCalc]_vars

\* ------------------------------------------------- SpecWriter: the ChunkWriter
InitWriter ==
    /\ \E k \in 0..MaxChunk : writer = ChunkWriter(k)
    /\ calls = <<>>
    /\ dv = NoDv /\ args = NoArgs /\ run = NoRun /\ shards = <<>>

\* the caller writes its next line; the line is its number in the run
WriterWrite ==
    /\ Len(calls) < MaxCalls
    /\ writer' = write_line(writer, writer.count_total + 1, "ok").w
    /\ calls' = Append(calls, "w")
    /\ UNCHANGED <<dv, args, run, shards>>

WriterClose ==
    /\ Len(calls) < MaxCalls
    /\ writer' = close(writer)
    /\ calls' = Append(calls, "c")
    /\ UNCHANGED <<dv, args, run, shards>>

NextWriter == WriterWrite \/ WriterClose

SpecWriter == InitWriter /\ [][NextWriter]_vars

\* ------------------------------------------------------------------- main()
\* A process is <<run, writer>>.  run.pc is the position in main ("start": the
\* writer is built and the try block is about to be entered); run.outcome is
\* how the try block ended; run.visited lists the bases (seq) or roots
\* (around) the loop has reached so far (history).
NewRun ==
    [pc |-> "start", outcome |-> "none", i |-> 0, emitidos |-> 0, line |-> <<>>,
     lo |-> 0, hi |-> 0, N |-> 0, a_coef |-> 0, b_coef |-> 0, visited |-> <<>>]

\* an exception leaves the try block: the finally clause is next
raise(r, exc) == [r EXCEPT !.pc = "finally", !.outcome = exc]

\* the loop condition is false: the try block ends normally
leave(r) == [r EXCEPT !.pc = "finally", !.outcome = "ok"]

\* after writer.write_line(line): the exception, or the counter += 1
emitted(r, s) ==
    IF s.raised THEN <<raise(r, "OSError"), s.w>>
    ELSE <<[r EXCEPT !.emitidos = @ + 1], s.w>>

emit(r, w, line, io) == emitted(r, write_line(w, line, io))

\* ---- random mode
random_setup(a, r) ==
    IF a.raiz_min < 0 \/ a.raiz_max > RAIZ_MAX \/ a.raiz_min > a.raiz_max
    THEN raise(r, "SystemExit")
    ELSE [r EXCEPT !.pc = "random_loop", !.emitidos = 0]

\* values random.randint / int(random.triangular(...)) can return: the two
\* ends of the range and the values next to its lower end
raiz_draws(a) ==
    {v \in {a.raiz_min + k : k \in 0..MaxDraw} \cup {a.raiz_max} :
        a.raiz_min <= v /\ v <= a.raiz_max}

\* values of filial: random.randint(1, 9999), or the fixed one, default 1
filial_draws(a) ==
    IF a.filial_aleatoria THEN (1..MaxDraw) \cup {FILIAL_MAX}
    ELSE IF a.filial_fixa = {} THEN {FILIAL_DEFAULT} ELSE a.filial_fixa

\* gerar_random_uma_linha with the draws val and filial
gerar_random_uma_linha(a, val, filial) == montar_cnpj(val, filial, a.mascara)

\* if line is None: continue; else write it and count it
random_line(r, w, line, io) ==
    IF line = <<>> THEN <<[r EXCEPT !.line = line], w>>
    ELSE emit([r EXCEPT !.line = line], w, line, io)

\* one pass of the while loop of random mode
random_iter(a, r, w, val, filial, io) ==
    IF ~(r.emitidos < a.quantidade) THEN <<leave(r), w>>
    ELSE random_line(r, w, gerar_random_uma_linha(a, val, filial), io)

\* ---- seq mode
seq_inicio(a) == IF a.inicio_base12 = {} THEN 0 ELSE CHOOSE v \in a.inicio_base12 : TRUE

\* --fim-base12 is given on every command line here: its default,
\* 999_999_999_999, is left out
seq_fim(a) == CHOOSE v \in a.fim_base12 : TRUE

seq_offset(a, inicio) ==
    (a.shard_index - (inicio % a.shards_total)) % a.shards_total

seq_setup(a, r) ==
    IF ~(0 <= a.shard_index /\ a.shard_index < a.shards_total)
    THEN raise(r, "SystemExit")
    ELSE [r EXCEPT !.pc = "seq_loop", !.emitidos = 0,
                   !.i = seq_inicio(a) + seq_offset(a, seq_inicio(a))]

\* a faulty variant: the step ignores the number of shards
seq_advance_passo(a, p) ==
    IF p[1].pc = "finally" THEN p ELSE <<[p[1] EXCEPT !.i = @ + a.passo], p[2]>>

\* i += args.passo * args.shards_total, unless an exception is on its way
seq_advance(a, p) ==
    IF p[1].pc = "finally" THEN p
    ELSE <<[p[1] EXCEPT !.i = @ + a.passo * a.shards_total], p[2]>>

\* the test on the degenerate sequence, the write and the count
seq_line(a, r, w, cnpj14, io) ==
    IF a.nao_pular_seq_invalidas \/ ~is_sequencia_invalida(cnpj14)
    THEN emit([r EXCEPT !.line = render(cnpj14, a.mascara)], w,
              render(cnpj14, a.mascara), io)
    ELSE <<r, w>>

\* the body of the loop on base i; base12 is f"{i:012d}"
seq_body(a, r, w, base12, io) ==
    IF ~all_digits(base12) THEN <<raise(r, "ValueError"), w>>
    ELSE seq_advance(a, seq_line(a, r, w, cnpj14_of(int_list(base12)), io))

\* one pass of the while loop of seq mode
seq_iter(a, r, w, io) ==
    IF ~(r.i <= seq_fim(a) /\ \A alvo \in a.quantidade : r.emitidos < alvo)
    THEN <<leave(r), w>>
    ELSE seq_body(a, [r EXCEPT !.visited = Append(@, r.i)], w, fmt_int(r.i, 12), io)

\* ---- around mode
RECURSIVE gcd(_, _)
gcd(a, b) == IF b = 0 THEN a ELSE gcd(b, a % b)

permute_index(i, N, a, b) == (a * i + b) % N

\* a faulty variant: any drawn coefficient is taken
coprime_any(a, N) == TRUE

\* the test of coprime_to's loop on one draw
coprime_ok(a, N) == gcd(a, N) = 1

\* random.randrange(2, N-1): the values it can return; empty: it raises
coprime_draws(N) == 2..(N - 2)

\* the window and the test of the quantity
around_window(a, r, lo, hi) ==
    IF a.quantidade > hi - lo + 1 THEN raise(r, "SystemExit")
    ELSE [r EXCEPT !.pc = "coprime", !.lo = lo, !.hi = hi, !.N = hi - lo + 1]

around_range(a, r, raiz_base) ==
    around_window(a, r, Max(0, raiz_base - a.spread), Min(RAIZ_MAX, raiz_base + a.spread))

around_parsed(a, r, parsed) ==
    IF parsed = {} THEN raise(r, "ValueError")
    ELSE around_range(a, r, (CHOOSE rf \in parsed : TRUE)[1])

around_setup(a, r) == around_parsed(a, r, parse_cnpj_like(a.base_cnpj))

\* one pass of coprime_to's loop with the draw a_try; on success b_coef = b
around_coprime(r, a_try, b) ==
    IF coprime_draws(r.N) = {} THEN raise(r, "ValueError")
    ELSE IF coprime_ok(a_try, r.N)
    THEN [r EXCEPT !.pc = "around_loop", !.a_coef = a_try, !.b_coef = b,
                   !.emitidos = 0, !.i = 0]
    ELSE [r EXCEPT !.a_coef = a_try]

\* i += 1, unless an exception is on its way
around_advance(p) ==
    IF p[1].pc = "finally" THEN p ELSE <<[p[1] EXCEPT !.i = @ + 1], p[2]>>

\* if line is None: skip; else write it and count it
around_line(r, w, line, io) ==
    IF line = <<>> THEN <<[r EXCEPT !.line = line], w>>
    ELSE emit([r EXCEPT !.line = line], w, line, io)

around_body(a, r, w, raiz, io) ==
    around_advance(around_line([r EXCEPT !.visited = Append(@, raiz)], w,
                               montar_cnpj(raiz, AROUND_FILIAL, a.mascara), io))

\* one pass of the while loop of around mode
around_iter(a, r, w, io) ==
    IF ~(r.emitidos < a.quantidade) THEN <<leave(r), w>>
    ELSE around_body(a, r, w, r.lo + permute_index(r.i, r.N, r.a_coef, r.b_coef), io)

\* the finally clause: writer.close()
finally(r, w) == <<[r EXCEPT !.pc = "done"], close(w)>>

\* ------------------------------------------------------- the command lines
IoOutcomes == {"ok", "open", "write"}

CommonArgs == [mascara : BOOLEAN, chunk_size : {0, RunChunk}]

RandomBounds == {0 - 1, 0, 1, RAIZ_MAX, RAIZ_MAX + 1}

RandomArgs ==
    {[modo |-> "random", mascara |-> c.mascara, chunk_size |-> c.chunk_size,
      quantidade |-> q, filial_aleatoria |-> fa, filial_fixa |-> ff,
      raiz_min |-> mn, raiz_max |-> mx, bias_newer |-> bn] :
        c \in CommonArgs, q \in 0..(MaxQuantidade - 1), fa \in BOOLEAN,
        ff \in {{}, {0}, {FILIAL_MAX}}, mn \in RandomBounds, mx \in RandomBounds,
        bn \in BOOLEAN}

SeqArgs ==
    {[modo |-> "seq", mascara |-> c.mascara, chunk_size |-> c.chunk_size,
      quantidade |-> q, inicio_base12 |-> ini, fim_base12 |-> {fim}, passo |-> ps,
      shards_total |-> st, shard_index |-> si, nao_pular_seq_invalidas |-> np] :
        c \in CommonArgs, q \in {{}, {0}, {MaxQuantidade}},
        ini \in {{}} \cup {{v} : v \in (0 - 1)..MaxInicio},
        fim \in (0 - 1)..MaxBase, ps \in 1..MaxPasso,
        st \in 0..(MaxShards - 1), si \in (0 - 1)..(MaxShards - 1), np \in BOOLEAN}

AroundRoots == {0, 1, 50, RAIZ_MAX - 1, RAIZ_MAX}

\* a base identifier of 14 digits
base_cnpj_plain(raiz) == fmt_int(raiz, 8) \o <<"0", "0", "0", "1", "9", "1">>

\* a base identifier: 14 digits, the same with the mask, 12 digits, 11 digits
base_cnpj_inputs(raiz) ==
    {base_cnpj_plain(raiz), mascarar(base_cnpj_plain(raiz)),
     fmt_int(raiz, 8) \o <<"0", "0", "0", "1">>,
     fmt_int(raiz, 8) \o <<"0", "0", "0">>}

\* the quantities asked for: none, one, a few, the widest window, one more
AroundQuantidades == {0, 1, MaxQuantidade, 2 * MaxSpread + 1, 2 * MaxSpread + 2}

AroundArgs ==
    {[modo |-> "around", mascara |-> c.mascara, chunk_size |-> c.chunk_size,
      quantidade |-> q, base_cnpj |-> bc, spread |-> sp] :
        c \in CommonArgs, q \in AroundQuantidades,
        bc \in {base_cnpj_plain(raiz) : raiz \in AroundRoots} \cup base_cnpj_inputs(50),
        sp \in 0..MaxSpread}

InitMain(argset) ==
    /\ args \in argset
    /\ writer = ChunkWriter(args.chunk_size)
    /\ run = NewRun
    /\ dv = NoDv /\ calls = <<>> /\ shards = <<>>

\* the process moves to p
Becomes(p) == run' = p[1] /\ writer' = p[2] /\ UNCHANGED <<dv, calls, args, shards>>

RandomSetup ==
    /\ args.modo = "random" /\ run.pc = "start"
    /\ Becomes(<<random_setup(args, run), writer>>)

RandomIter ==
    /\ run.pc = "random_loop"
    /\ \E val \in raiz_draws(args), filial \in filial_draws(args), io \in IoOutcomes :
          Becomes(random_iter(args, run, writer, val, filial, io))

SeqSetup ==
    /\ args.modo = "seq" /\ run.pc = "start"
    /\ Becomes(<<seq_setup(args, run), writer>>)

SeqIter ==
    /\ run.pc = "seq_loop"
    /\ \E io \in IoOutcomes : Becomes(seq_iter(args, run, writer, io))

AroundSetup ==
    /\ args.modo = "around" /\ run.pc = "start"
    /\ Becomes(<<around_setup(args, run), writer>>)

AroundCoprime ==
    /\ run.pc = "coprime"
    /\ \E a_try \in coprime_draws(run.N) \cup {0}, b \in 0..Max(0, run.N - 1) :
          /\ a_try = 0 <=> coprime_draws(run.N) = {}
          /\ Becomes(<<around_coprime(run, a_try, b), writer>>)

AroundIter ==
    /\ run.pc = "around_loop"
    /\ \E io \in IoOutcomes : Becomes(around_iter(args, run, writer, io))

Finally ==
    /\ run.pc = "finally"
    /\ Becomes(finally(run, writer))

NextRandom == RandomSetup \/ RandomIter \/ Finally

NextAround == AroundSetup \/ AroundCoprime \/ AroundIter \/ Finally

Next ==
    \/ RandomSetup \/ RandomIter
    \/ SeqSetup \/ SeqIter
    \/ AroundSetup \/ AroundCoprime \/ AroundIter
    \/ Finally

Init == InitMain(RandomArgs \cup SeqArgs \cup AroundArgs)

Spec == Init /\ [][Next]_vars

SpecAround == InitMain(AroundArgs) /\ [][NextAround]_vars

SpecRandom == InitMain(RandomArgs) /\ [][NextRandom]_vars

\* ------------------------------------------- SpecSeq: one run per shard index
SeqShardArgs ==
    {[modo |-> "seq", mascara |-> FALSE, chunk_size |-> 0,
      quantidade |-> {}, inicio_base12 |-> {ini}, fim_base12 |-> {fim}, passo |-> ps,
      shards_total |-> st, shard_index |-> 0, nao_pular_seq_invalidas |-> np] :
        ini \in 0..MaxInicio, fim \in 0..MaxBase + 2, ps \in 1..MaxPasso,
        st \in 1..MaxShards, np \in BOOLEAN}

\* the command line of the run of shard k
shard_args(k) == [args EXCEPT !.shard_index = k]

InitSeq ==
    /\ args \in {a \in SeqShardArgs : seq_inicio(a) <= seq_fim(a)}
    /\ shards = [k \in 0..(args.shards_total - 1) |->
                    <<NewRun, ChunkWriter(args.chunk_size)>>]
    /\ dv = NoDv /\ calls = <<>> /\ run = NoRun /\ writer = NoWriter

ShardBecomes(k, p) ==
    /\ shards' = [shards EXCEPT ![k] = p]
    /\ UNCHANGED <<dv, calls, args, run, writer>>

ShardSetup ==
    \E k \in DOMAIN shards :
        /\ shards[k][1].pc = "start"
        /\ ShardBecomes(k, <<seq_setup(shard_args(k), shards[k][1]), shards[k][2]>>)

ShardIter ==
    \E k \in DOMAIN shards :
        /\ shards[k][1].pc = "seq_loop"
        /\ ShardBecomes(k, seq_iter(shard_args(k), shards[k][1], shards[k][2], "ok"))

ShardFinally ==
    \E k \in DOMAIN shards :
        /\ shards[k][1].pc = "finally"
        /\ ShardBecomes(k, finally(shards[k][1], shards[k][2]))

NextSeq == ShardSetup \/ ShardIter \/ ShardFinally

SpecSeq == InitSeq /\ [][NextSeq]_vars

\* ------------------------------------------------------------------ claims
RECURSIVE WeightedSum(_, _, _)
WeightedSum(ds, ws, k) ==
    IF k > Len(ds) THEN 0 ELSE ds[k] * ws[k] + WeightedSum(ds, ws, k + 1)

Mod11Of(r) == IF r < 2 THEN 0 ELSE 11 - r

Mod11Digit(ds, ws) == Mod11Of(WeightedSum(ds, ws, 1) % 11)

\* C1: for a base B of 12 decimal digits calc_dvs returns d1 = mod11(B, weights1)
\* and d2 = mod11(B ++ d1, weights2), mod11 being 0 for a remainder below 2 and
\* 11 minus the remainder otherwise, and both digits are in 0..9.
C1_CalcDvs ==
    dv.pc = "done" =>
        LET e1 == Mod11Digit(dv.B, <<5, 4, 3, 2, 9, 8, 7, 6, 5, 4, 3, 2>>)
            e2 == Mod11Digit(Append(dv.B, e1), <<6, 5, 4, 3, 2, 9, 8, 7, 6, 5, 4, 3, 2>>)
        IN  /\ Len(dv.B) = 12
            /\ dv.d = <<e1, e2>>
            /\ dv.d[1] \in 0..9
            /\ dv.d[2] \in 0..9

\* the published vector 11.222.333/0001-81
C1_Witness ==
    /\ dv.pc = "done"
    /\ dv.B = <<1, 1, 2, 2, 2, 3, 3, 3, 0, 0, 0, 1>>
    /\ dv.d = <<8, 1>>

AllWrites == \A j \in 1..Len(calls) : calls[j] = "w"

CeilDiv(n, k) == (n + k - 1) \div k

ChunkName(j) == <<"_", "0", "0", "0", "0", DigitChars[j + 1]>>

\* C7: after n >= 1 write_line calls and no close, a writer of chunk size k > 0
\* has opened ceil(n/k) files numbered 1, 2, ... in order, every one but the last
\* holds k lines, the last holds the rest, and the per-chunk counter never
\* exceeds k; with chunk size 0 one file holds all n lines.
C7_ChunkLayout ==
    LET n == Len(calls)
        k == writer.chunk_size
        c == CeilDiv(n, k)
    IN  /\ (k > 0 => writer.count_chunk <= k)
        /\ (AllWrites /\ n >= 1 /\ k > 0) =>
              /\ Len(writer.opened) = c
              /\ \A j \in 1..c : writer.opened[j] = ChunkName(j)
              /\ DOMAIN writer.files = {ChunkName(j) : j \in 1..c}
              /\ \A j \in 1..(c - 1) : Len(writer.files[ChunkName(j)]) = k
              /\ Len(writer.files[ChunkName(c)]) = n - k * (c - 1)
              /\ writer.count_chunk = n - k * (c - 1)
        /\ (AllWrites /\ n >= 1 /\ k = 0) =>
              /\ writer.opened = << <<>> >>
              /\ DOMAIN writer.files = {<<>>}
              /\ Len(writer.files[<<>>]) = n

C7_Witness ==
    /\ AllWrites /\ Len(calls) = 7 /\ writer.chunk_size = 3
    /\ Len(writer.files[ChunkName(1)]) = 3
    /\ Len(writer.files[ChunkName(2)]) = 3
    /\ Len(writer.files[ChunkName(3)]) = 1

RECURSIVE SumLens(_, _)
SumLens(files, paths) ==
    IF paths = {} THEN 0
    ELSE LET p == CHOOSE q \in paths : TRUE
         IN  Len(files[p]) + SumLens(files, paths \ {p})

\* C10: after any sequence of write_line and close calls no written line is
\* lost: the files together hold count_total lines and no file that received
\* lines is opened again.
C10_NoLineLost ==
    /\ SumLens(writer.files, DOMAIN writer.files) = writer.count_total
    /\ \A j1, j2 \in 1..Len(writer.opened) :
          j1 # j2 => writer.opened[j1] # writer.opened[j2]

\* ---- seq mode, one run per shard index (SpecSeq)
ShardVisited(k) == {shards[k][1].visited[j] : j \in 1..Len(shards[k][1].visited)}

AllShardsDone == \A k \in DOMAIN shards : shards[k][1].pc = "done"

ClaimLo == CHOOSE v \in args.inicio_base12 : TRUE

ClaimHi == CHOOSE v \in args.fim_base12 : TRUE

\* the base whose 14 digits are all the same is the one seq mode skips
Degenerate(i) == is_sequencia_invalida(cnpj14_of(int_list(fmt_int(i, 12))))

Kept(k) == {i \in ShardVisited(k) : args.nao_pular_seq_invalidas \/ ~Degenerate(i)}

\* C2: with step 1 and no quantity limit the runs of the shards 0..T-1 over
\* lo <= hi visit pairwise disjoint sets of bases, each base once, and once all
\* have ended the union is every integer of [lo, hi]; each shard wrote one line
\* per visited base it does not skip.
C2_ShardsPartition ==
    args.passo = 1 =>
        /\ \A k1, k2 \in DOMAIN shards :
              k1 # k2 => ShardVisited(k1) \cap ShardVisited(k2) = {}
        /\ \A k \in DOMAIN shards :
              Cardinality(ShardVisited(k)) = Len(shards[k][1].visited)
        /\ AllShardsDone =>
              /\ UNION {ShardVisited(k) : k \in DOMAIN shards} = ClaimLo..ClaimHi
              /\ \A k \in DOMAIN shards :
                    shards[k][2].count_total = Cardinality(Kept(k))

C2_Witness ==
    /\ AllShardsDone /\ args.passo = 1 /\ args.shards_total = 3
    /\ ClaimLo = 1 /\ ClaimHi = 6
    /\ ShardVisited(0) = {3, 6} /\ ShardVisited(1) = {1, 4} /\ ShardVisited(2) = {2, 5}

\* C3: for any step >= 1 the values visited by the T shards are pairwise
\* disjoint and their union is { lo + k*step : lo + k*step <= hi }.
C3_SteppedPartition ==
    /\ \A k1, k2 \in DOMAIN shards :
          k1 # k2 => ShardVisited(k1) \cap ShardVisited(k2) = {}
    /\ AllShardsDone =>
          UNION {ShardVisited(k) : k \in DOMAIN shards}
              = {v \in ClaimLo..ClaimHi : (v - ClaimLo) % args.passo = 0}

\* ---- around mode (SpecAround)
ClaimCenter == CHOOSE r \in AroundRoots : args.base_cnpj \in base_cnpj_inputs(r)

ClaimDigits == Cardinality({k \in 1..Len(args.base_cnpj) : IsDigitChar(args.base_cnpj[k])})

ClaimWinLo == IF ClaimCenter - args.spread > 0 THEN ClaimCenter - args.spread ELSE 0

ClaimWinHi ==
    IF ClaimCenter + args.spread < 99999999 THEN ClaimCenter + args.spread ELSE 99999999

ClaimN == ClaimWinHi - ClaimWinLo + 1

\* C4: in around mode no root is reached twice and every root reached lies in
\* [max(0, center - spread), min(99999999, center + spread)], for every (a, b)
\* the setup returns; every written line is one of the roots reached.
C4_NoRepeatInWindow ==
    args.modo = "around" =>
        /\ \A j1, j2 \in 1..Len(run.visited) :
              j1 # j2 => run.visited[j1] # run.visited[j2]
        /\ \A j \in 1..Len(run.visited) :
              ClaimWinLo <= run.visited[j] /\ run.visited[j] <= ClaimWinHi
        /\ writer.count_total <= Len(run.visited)

C4_Witness ==
    /\ run.pc = "done" /\ run.outcome = "ok"
    /\ ClaimN = 9 /\ args.quantidade = 9 /\ run.a_coef = 5
    /\ {run.visited[j] : j \in 1..Len(run.visited)} = 46..54
    /\ writer.count_total = 9

\* C5: in around mode, for every window size N >= 1 and every quantity
\* 0 <= quantity <= N the setup finds a coefficient and the run stops having
\* emitted exactly quantity lines (I/O failures aside).
C5_AroundCompletes ==
    (/\ args.modo = "around" /\ run.pc = "done"
     /\ ClaimDigits >= 12 /\ args.quantidade <= ClaimN
     /\ run.outcome # "OSError")
        => /\ run.outcome = "ok"
           /\ run.emitidos = args.quantidade
           /\ writer.count_total = args.quantidade

\* ---- random mode (SpecRandom)
RandomConfigOk ==
    0 <= args.raiz_min /\ args.raiz_min <= args.raiz_max /\ args.raiz_max <= 99999999

\* C6: in random mode every accepted configuration stops under fair draws:
\* while the loop is short of the quantity some draw is accepted and counted
\* (a pass whose draw is rejected changes nothing), and a run that has ended
\* normally has written exactly quantity lines.
C6_RandomTerminates ==
    /\ (/\ RandomConfigOk /\ run.pc = "random_loop"
        /\ run.emitidos < args.quantidade)
           => \E val \in raiz_draws(args), filial \in filial_draws(args) :
                 gerar_random_uma_linha(args, val, filial) # <<>>
    /\ (RandomConfigOk /\ run.pc = "done" /\ run.outcome = "ok")
           => writer.count_total = args.quantidade

\* ---- a run of main in any mode (Spec)
ConfigError ==
    \/ args.modo = "random" /\ ~RandomConfigOk
    \/ /\ args.modo = "seq"
       /\ \/ ~(0 <= args.shard_index /\ args.shard_index < args.shards_total)
          \/ seq_inicio(args) < 0
          \/ seq_fim(args) < 0
          \/ seq_inicio(args) > seq_fim(args)
    \/ args.modo = "around" /\ (ClaimDigits < 12 \/ args.quantidade > ClaimN)

\* C8: a configuration error is detected before generation begins: the run
\* ends in an error, no base was reached, no line written, no file opened.
C8_ConfigErrorsStopEarly ==
    (run.pc = "done" /\ ConfigError)
        => /\ run.outcome \in {"SystemExit", "ValueError"}
           /\ run.visited = <<>>
           /\ writer.count_total = 0
           /\ writer.opened = <<>>

\* C9: at most one output file is open at any time, and once main has ended,
\* however the try block ended, none is and the writer holds no file object.
C9_WriterClosed ==
    /\ Cardinality(writer.open) <= 1
    /\ run.pc = "done" => writer.open = {} /\ writer.fh = {}

\* a write fails after a rotation: the abnormal path with a file open
C9_Witness ==
    /\ run.pc = "done" /\ run.outcome = "OSError"
    /\ Len(writer.opened) = 2 /\ writer.count_total = 3

====
